---- MODULE Spec2Model ----
(***************************************************************************)
(* Model of the access-control layer of caltechlibrary/wsfn: the Access    *)
(* credential store (UpdateAccess, RemoveAccess, Login), the route test    *)
(* isAccessRoute and the Basic-Auth gate (Access.Handler, AccessHandler).  *)
(*                                                                         *)
(* Strings whose characters matter (URL paths, routes, passwords) are      *)
(* sequences of one-character strings; byte slices (keys) are sequences of *)
(* Byte records.  Usernames, realm names and encryption tags are only      *)
(* compared for equality and stay TLA+ strings.                            *)
(***************************************************************************)
EXTENDS Integers, Sequences, FiniteSets, TLC

VARIABLES
    a,      \* the *Access the gate and the store operations work on (Nil or a record)
    last,   \* observation of the last completed operation: arguments, return value, response
    calls,  \* per goroutine: the store method it is executing and where it stands in it
    fault,  \* TRUE once the process has ended abnormally (fatal error, os.Exit(1))
    fName,  \* the name of the access file the webaccess commands are given
    disk,   \* what the file system holds under fName
    cli,    \* observation of the last webaccess command: verb, arguments, error
    procs   \* the webaccess commands that run at the same time, each with its own memory

vars == <<a, last, calls, fault, fName, disk, cli, procs>>

\* the state of the serving process / of the webaccess command line
cliVars == <<fName, disk, cli, procs>>

----------------------------------------------------------------------------
(* Bounds *)

NumUsers     == 2   \* usernames taken from UserNames[1..NumUsers]
NumPasswords == 2   \* passwords taken from PasswordTable[1..NumPasswords]
NumSalts     == 1   \* distinct outcomes of rand.Read for the 32-byte salt
NumWorkers   == 2   \* goroutines calling into one Access at the same time

UserNames == <<"alice", "", "bob", "carol">>
Usernames == {UserNames[i] : i \in 1..NumUsers}

PasswordTable == << <<"p">>, <<"q">>, <<>>, <<"p", "q">>, <<"q", "p">> >>
Passwords == {PasswordTable[i] : i \in 1..NumPasswords}

Salts == 1..NumSalts

----------------------------------------------------------------------------
(* Strings *)

\* strings.HasPrefix(s, prefix)
HasPrefix(s, prefix) ==
    /\ Len(s) >= Len(prefix)
    /\ SubSeq(s, 1, Len(prefix)) = prefix

\* true when sub occurs in s as a contiguous run
Contains(s, sub) ==
    \E i \in 1..(Len(s) + 1) :
        /\ i + Len(sub) - 1 <= Len(s)
        /\ SubSeq(s, i, i + Len(sub) - 1) = sub

----------------------------------------------------------------------------
(* Key derivation.  A Byte is either one plaintext character or one opaque *)
(* digest block; a digest block is determined by the algorithm and by      *)
(* exactly the inputs the call passes to it, and differs whenever they     *)
(* differ (collision-free).                                                *)

NoSalt == 0

Plain(c) == [kind |-> "plain", pw |-> <<c>>, salt |-> NoSalt]
Digest(alg, pw, salt) == [kind |-> alg, pw |-> pw, salt |-> salt]

\* []byte(password)
Bytes(password) == [i \in 1..Len(password) |-> Plain(password[i])]

\* argon2.IDKey([]byte(password), salt, 1, 64*1024, 4, 32)
Argon2IDKey(password, salt) == <<Digest("argon2id", password, salt)>>

\* pbkdf2.Key([]byte(password), salt, 4097, 32, sha1.New)
Pbkdf2Key(password, salt) == <<Digest("pbkdf2", password, salt)>>

\* h := md5.New(); io.WriteString(h, password); h.Sum(nil)
Md5Key(password) == <<Digest("md5", password, NoSalt)>>

\* h := sha512.New(); h.Sum([]byte(password)):
\* Sum appends the digest of what was written to h (nothing) to its argument.
Sha512Key(password) == Bytes(password) \o <<Digest("sha512", <<>>, NoSalt)>>

KnownEncryptions == {"argon2id", "pbkdf2", "md5", "sha512"}

\* the switch on a.Encryption shared by UpdateAccess and Login
DeriveKey(encryption, password, salt) ==
    CASE encryption = "argon2id" -> Argon2IDKey(password, salt)
      [] encryption = "pbkdf2"   -> Pbkdf2Key(password, salt)
      [] encryption = "md5"      -> Md5Key(password)
      [] encryption = "sha512"   -> Sha512Key(password)

----------------------------------------------------------------------------
(* The store *)

\* a nil *Access
Nil == [nil |-> TRUE]

\* a nil map and an empty map read alike; both are the empty function
EmptyMap == <<>>

Secrets(salt, key) == [Salt |-> salt, Key |-> key]

Access(authType, authName, encryption, map, routes) ==
    [AuthType |-> authType, AuthName |-> authName, Encryption |-> encryption,
     Map |-> map, Routes |-> routes]

\* a.Map[username] = secret
MapSet(map, username, secret) ==
    [u \in (DOMAIN map) \cup {username} |->
        IF u = username THEN secret ELSE map[u]]

\* delete(a.Map, username)
MapDelete(map, username) ==
    [u \in (DOMAIN map) \ {username} |-> map[u]]

----------------------------------------------------------------------------
(* Access.UpdateAccess, Access.RemoveAccess, Access.Login as functions of  *)
(* the store: each returns what the method leaves in the store and what it *)
(* returns.  salt is the value rand.Read produced, randOk whether it       *)
(* succeeded.                                                              *)

\* variant of UpdateAccess: an unrecognised encryption falls back to argon2id
UpdateAccessOn_DefaultsUnknown(s, username, password, salt, randOk) ==
    LET enc == IF s.Encryption \in KnownEncryptions THEN s.Encryption ELSE "argon2id"
        s1  == [s EXCEPT !.Encryption = enc]
    IN  IF ~randOk
        THEN [store |-> s1, result |-> FALSE]
        ELSE [store  |-> [s1 EXCEPT !.Map =
                            MapSet(s1.Map, username,
                                   Secrets(salt, DeriveKey(enc, password, salt)))],
              result |-> TRUE]

\* variant of UpdateAccess: an empty tag is left empty, the key still derived
\* with argon2id
UpdateAccessOn_KeepsEmptyTag(s, username, password, salt, randOk) ==
    LET enc == IF s.Encryption = "" THEN "argon2id" ELSE s.Encryption
    IN  IF ~randOk \/ enc \notin KnownEncryptions
        THEN [store |-> s, result |-> FALSE]
        ELSE [store  |-> [s EXCEPT !.Map =
                            MapSet(s.Map, username,
                                   Secrets(salt, DeriveKey(enc, password, salt)))],
              result |-> TRUE]

\* variant of UpdateAccess: a user who has an entry keeps it
UpdateAccessOn_KeepsOldEntry(s, username, password, salt, randOk) ==
    LET enc == IF s.Encryption = "" THEN "argon2id" ELSE s.Encryption
        s1  == [s EXCEPT !.Encryption = enc]
    IN  IF ~randOk \/ enc \notin KnownEncryptions
        THEN [store |-> s1, result |-> FALSE]
        ELSE IF username \in DOMAIN s.Map
        THEN [store |-> s1, result |-> TRUE]
        ELSE [store  |-> [s1 EXCEPT !.Map =
                            MapSet(s1.Map, username,
                                   Secrets(salt, DeriveKey(enc, password, salt)))],
              result |-> TRUE]

\* variant of UpdateAccess: the map is made anew for the entry
UpdateAccessOn_FreshMap(s, username, password, salt, randOk) ==
    LET enc == IF s.Encryption = "" THEN "argon2id" ELSE s.Encryption
        s1  == [s EXCEPT !.Encryption = enc]
    IN  IF ~randOk \/ enc \notin KnownEncryptions
        THEN [store |-> s1, result |-> FALSE]
        ELSE [store  |-> [s1 EXCEPT !.Map =
                            MapSet(EmptyMap, username,
                                   Secrets(salt, DeriveKey(enc, password, salt)))],
              result |-> TRUE]

UpdateAccessOn(s, username, password, salt, randOk) ==
    LET \* if a.Encryption == "" { a.Encryption = "argon2id" }
        enc == IF s.Encryption = "" THEN "argon2id" ELSE s.Encryption
        s1  == [s EXCEPT !.Encryption = enc]
    IN  IF ~randOk
        THEN [store |-> s1, result |-> FALSE]
        ELSE IF enc \in KnownEncryptions
        THEN [store  |-> [s1 EXCEPT !.Map =
                            MapSet(s1.Map, username,
                                   Secrets(salt, DeriveKey(enc, password, salt)))],
              result |-> TRUE]
        ELSE [store |-> s1, result |-> FALSE]

\* variant of RemoveAccess: reports the user found but keeps the entry
RemoveAccessOn_KeepsEntry(s, username) ==
    IF username \in DOMAIN s.Map
    THEN [store |-> s, result |-> TRUE]
    ELSE [store |-> s, result |-> FALSE]

\* variant of RemoveAccess: a user found empties the whole map
RemoveAccessOn_ClearsMap(s, username) ==
    IF username \in DOMAIN s.Map
    THEN [store |-> [s EXCEPT !.Map = EmptyMap], result |-> TRUE]
    ELSE [store |-> s, result |-> FALSE]

RemoveAccessOn(s, username) ==
    IF username \in DOMAIN s.Map
    THEN [store |-> [s EXCEPT !.Map = MapDelete(s.Map, username)], result |-> TRUE]
    ELSE [store |-> s, result |-> FALSE]

\* variant of Login: derives the key with the salt of the freshly allocated
\* secret (none) instead of the stored one
LoginOn_FreshSalt(s, username, password) ==
    IF username \notin DOMAIN s.Map
    THEN FALSE
    ELSE LET u == s.Map[username]
         IN  IF s.Encryption \in KnownEncryptions
             THEN DeriveKey(s.Encryption, password, NoSalt) = u.Key
             ELSE FALSE

LoginOn(s, username, password) ==
    IF username \notin DOMAIN s.Map
    THEN FALSE
    ELSE LET u == s.Map[username]
         IN  IF s.Encryption \in KnownEncryptions
             THEN DeriveKey(s.Encryption, password, u.Salt) = u.Key   \* bytes.Compare(...) == 0
             ELSE FALSE

\* Access.isAccessRoute
isAccessRoute(s, p) ==
    \E i \in 1..Len(s.Routes) : HasPrefix(p, s.Routes[i])

----------------------------------------------------------------------------
(* Requests and responses *)

PathSecureData == <<"/", "s", "/", "x">>
PathSecureBare == <<"/", "s">>
PathPublicData == <<"/", "p", "/", "x">>
Paths == {PathSecureData, PathSecureBare, PathPublicData}

Methods == {"GET"}

\* the Authorization header of a request: absent, present but not decodable
\* as Basic credentials, or the base64 of username:password
NoAuthorization  == [kind |-> "none",  username |-> "", password |-> <<>>]
BadAuthorization == [kind |-> "bad",   username |-> "", password |-> <<>>]
BasicAuthorization(username, password) ==
    [kind |-> "basic", username |-> username, password |-> password]

Authorizations ==
    {NoAuthorization, BadAuthorization}
        \cup {BasicAuthorization(u, p) : u \in Usernames, p \in Passwords}

Request(method, path, authorization) ==
    [Method |-> method, Path |-> path, Authorization |-> authorization]

Requests == {Request(m, p, h) : m \in Methods, p \in Paths, h \in Authorizations}

\* req.BasicAuth(): username, password, ok
BasicAuth(req) ==
    IF req.Authorization.kind = "basic"
    THEN [username |-> req.Authorization.username,
          password |-> req.Authorization.password, ok |-> TRUE]
    ELSE [username |-> "", password |-> <<>>, ok |-> FALSE]

StatusOK == 200
StatusUnauthorized == 401

NoHeader == <<>>

\* variant of the challenge: the realm is not quoted
Challenge_Unquoted(authName) == <<"Basic", " ", "realm=", authName>>

\* fmt.Sprintf(`Basic realm="%s"`, a.AuthName), kept as its pieces
Challenge(authName) == <<"Basic", " ", "realm=\"", authName, "\"">>

\* the response writer: status, the WWW-Authenticate header and the body
Response(status, wwwAuthenticate, body) ==
    [Status |-> status, WWWAuthenticate |-> wwwAuthenticate, Body |-> body]

NoResponse == Response(0, NoHeader, "")

\* http.Error(res, "Unauthorized", http.StatusUnauthorized): the headers
\* already set on res stay, the status and the body are written
HttpError(res, body, status) ==
    [res EXCEPT !.Status = status, !.Body = body]

\* next.ServeHTTP(res, req): the downstream handler answers; the gate's
\* headers set before the call stay on the response
NextServeHTTP(res) ==
    [res EXCEPT !.Status = StatusOK, !.Body = "next"]

\* outcome of one pass through the gate: the response, the requests handed
\* to next, and the (username, password) pairs handed to Login
Outcome(res, nextCalls, loginCalls) ==
    [res |-> res, nextCalls |-> nextCalls, loginCalls |-> loginCalls]

\* variant of Handler: the return after a failed Login is missing
HandlerServeHTTP_FallsThrough(s, req) ==
    IF s = Nil
    THEN Outcome(NextServeHTTP(NoResponse), <<req>>, <<>>)
    ELSE IF isAccessRoute(s, req.Path)
    THEN LET res  == [NoResponse EXCEPT !.WWWAuthenticate = Challenge(s.AuthName)]
             cred == BasicAuth(req)
         IN  IF ~cred.ok
             THEN Outcome(HttpError(res, "Unauthorized", StatusUnauthorized), <<>>, <<>>)
             ELSE IF ~LoginOn(s, cred.username, cred.password)
             THEN Outcome(NextServeHTTP(HttpError(res, "Unauthorized", StatusUnauthorized)),
                          <<req>>, <<<<cred.username, cred.password>>>>)
             ELSE Outcome(NextServeHTTP(res), <<req>>,
                          <<<<cred.username, cred.password>>>>)
    ELSE Outcome(NextServeHTTP(NoResponse), <<req>>, <<>>)

\* variant of Handler: the credentials are removed from the request before
\* it is handed to next
HandlerServeHTTP_StripsAuthorization(s, req) ==
    LET stripped == [req EXCEPT !.Authorization = NoAuthorization]
    IN  IF s = Nil
        THEN Outcome(NextServeHTTP(NoResponse), <<stripped>>, <<>>)
        ELSE IF isAccessRoute(s, req.Path)
        THEN LET res  == [NoResponse EXCEPT !.WWWAuthenticate = Challenge(s.AuthName)]
                 cred == BasicAuth(req)
             IN  IF ~cred.ok
                 THEN Outcome(HttpError(res, "Unauthorized", StatusUnauthorized), <<>>, <<>>)
                 ELSE IF ~LoginOn(s, cred.username, cred.password)
                 THEN Outcome(HttpError(res, "Unauthorized", StatusUnauthorized),
                              <<>>, <<<<cred.username, cred.password>>>>)
                 ELSE Outcome(NextServeHTTP(res), <<stripped>>,
                              <<<<cred.username, cred.password>>>>)
        ELSE Outcome(NextServeHTTP(NoResponse), <<stripped>>, <<>>)

\* variant of Handler: a nil store denies instead of passing through
HandlerServeHTTP_NilDenies(s, req) ==
    IF s = Nil
    THEN Outcome(HttpError(NoResponse, "Unauthorized", StatusUnauthorized), <<>>, <<>>)
    ELSE IF isAccessRoute(s, req.Path)
    THEN LET res  == [NoResponse EXCEPT !.WWWAuthenticate = Challenge(s.AuthName)]
             cred == BasicAuth(req)
         IN  IF ~cred.ok
             THEN Outcome(HttpError(res, "Unauthorized", StatusUnauthorized), <<>>, <<>>)
             ELSE IF ~LoginOn(s, cred.username, cred.password)
             THEN Outcome(HttpError(res, "Unauthorized", StatusUnauthorized),
                          <<>>, <<<<cred.username, cred.password>>>>)
             ELSE Outcome(NextServeHTTP(res), <<req>>,
                          <<<<cred.username, cred.password>>>>)
    ELSE Outcome(NextServeHTTP(NoResponse), <<req>>, <<>>)

\* variant of Handler: a user that is not in the store gets its own message
HandlerServeHTTP_NamesUnknownUser(s, req) ==
    IF s = Nil
    THEN Outcome(NextServeHTTP(NoResponse), <<req>>, <<>>)
    ELSE IF isAccessRoute(s, req.Path)
    THEN LET res  == [NoResponse EXCEPT !.WWWAuthenticate = Challenge(s.AuthName)]
             cred == BasicAuth(req)
         IN  IF ~cred.ok
             THEN Outcome(HttpError(res, "Unauthorized", StatusUnauthorized), <<>>, <<>>)
             ELSE IF cred.username \notin DOMAIN s.Map
             THEN Outcome(HttpError(res, "Unknown user", StatusUnauthorized), <<>>, <<>>)
             ELSE IF ~LoginOn(s, cred.username, cred.password)
             THEN Outcome(HttpError(res, "Unauthorized", StatusUnauthorized),
                          <<>>, <<<<cred.username, cred.password>>>>)
             ELSE Outcome(NextServeHTTP(res), <<req>>,
                          <<<<cred.username, cred.password>>>>)
    ELSE Outcome(NextServeHTTP(NoResponse), <<req>>, <<>>)

\* the closure returned by (a *Access).Handler(next)
\* variant of Handler: the scheme token of the challenge is the store's AuthType
HandlerServeHTTP_SchemeFromAuthType(s, req) ==
    IF s = Nil
    THEN Outcome(NextServeHTTP(NoResponse), <<req>>, <<>>)
    ELSE IF isAccessRoute(s, req.Path)
    THEN LET res  == [NoResponse EXCEPT !.WWWAuthenticate =
                         <<s.AuthType, " ", "realm=\"", s.AuthName, "\"">>]
             cred == BasicAuth(req)
         IN  IF ~cred.ok
             THEN Outcome(HttpError(res, "Unauthorized", StatusUnauthorized), <<>>, <<>>)
             ELSE IF ~LoginOn(s, cred.username, cred.password)
             THEN Outcome(HttpError(res, "Unauthorized", StatusUnauthorized),
                          <<>>, <<<<cred.username, cred.password>>>>)
             ELSE Outcome(NextServeHTTP(res), <<req>>,
                          <<<<cred.username, cred.password>>>>)
    ELSE Outcome(NextServeHTTP(NoResponse), <<req>>, <<>>)

HandlerServeHTTP(s, req) ==
    IF s = Nil
    THEN Outcome(NextServeHTTP(NoResponse), <<req>>, <<>>)
    ELSE IF isAccessRoute(s, req.Path)
    THEN LET res  == [NoResponse EXCEPT !.WWWAuthenticate = Challenge(s.AuthName)]
             cred == BasicAuth(req)
         IN  IF ~cred.ok
             THEN Outcome(HttpError(res, "Unauthorized", StatusUnauthorized), <<>>, <<>>)
             ELSE IF ~LoginOn(s, cred.username, cred.password)
             THEN Outcome(HttpError(res, "Unauthorized", StatusUnauthorized),
                          <<>>, <<<<cred.username, cred.password>>>>)
             ELSE Outcome(NextServeHTTP(res), <<req>>,
                          <<<<cred.username, cred.password>>>>)
    ELSE Outcome(NextServeHTTP(NoResponse), <<req>>, <<>>)

\* variant of AccessHandler: the credentials are checked before the route,
\* for every path
AccessHandlerServeHTTP_AuthFirst(s, req) ==
    IF s = Nil
    THEN Outcome(NextServeHTTP(NoResponse), <<req>>, <<>>)
    ELSE LET res  == [NoResponse EXCEPT !.WWWAuthenticate = Challenge(s.AuthName)]
             cred == BasicAuth(req)
         IN  IF ~cred.ok
             THEN Outcome(HttpError(res, "Unauthorized", StatusUnauthorized), <<>>, <<>>)
             ELSE IF ~LoginOn(s, cred.username, cred.password)
             THEN Outcome(HttpError(res, "Unauthorized", StatusUnauthorized),
                          <<>>, <<<<cred.username, cred.password>>>>)
             ELSE Outcome(NextServeHTTP(res), <<req>>,
                          <<<<cred.username, cred.password>>>>)

\* variant of AccessHandler: the challenge header is set only on the response
\* that rejects
AccessHandlerServeHTTP_ChallengeOnReject(s, req) ==
    IF s = Nil
    THEN Outcome(NextServeHTTP(NoResponse), <<req>>, <<>>)
    ELSE IF isAccessRoute(s, req.Path)
    THEN LET res  == [NoResponse EXCEPT !.WWWAuthenticate = Challenge(s.AuthName)]
             cred == BasicAuth(req)
         IN  IF ~cred.ok
             THEN Outcome(HttpError(res, "Unauthorized", StatusUnauthorized), <<>>, <<>>)
             ELSE IF ~LoginOn(s, cred.username, cred.password)
             THEN Outcome(HttpError(res, "Unauthorized", StatusUnauthorized),
                          <<>>, <<<<cred.username, cred.password>>>>)
             ELSE Outcome(NextServeHTTP(NoResponse), <<req>>,
                          <<<<cred.username, cred.password>>>>)
    ELSE Outcome(NextServeHTTP(NoResponse), <<req>>, <<>>)

\* the closure returned by AccessHandler(next, a)
AccessHandlerServeHTTP(s, req) ==
    IF s = Nil
    THEN Outcome(NextServeHTTP(NoResponse), <<req>>, <<>>)
    ELSE IF isAccessRoute(s, req.Path)
    THEN LET res  == [NoResponse EXCEPT !.WWWAuthenticate = Challenge(s.AuthName)]
             cred == BasicAuth(req)
         IN  IF ~cred.ok
             THEN Outcome(HttpError(res, "Unauthorized", StatusUnauthorized), <<>>, <<>>)
             ELSE IF ~LoginOn(s, cred.username, cred.password)
             THEN Outcome(HttpError(res, "Unauthorized", StatusUnauthorized),
                          <<>>, <<<<cred.username, cred.password>>>>)
             ELSE Outcome(NextServeHTTP(res), <<req>>,
                          <<<<cred.username, cred.password>>>>)
    ELSE Outcome(NextServeHTTP(NoResponse), <<req>>, <<>>)

----------------------------------------------------------------------------
(* State machine *)

RouteSecure == <<"/", "s", "/">>
RouteApi    == <<"/", "a", "/">>

\* the route table of the access file, as webaccess leaves it (sorted)
RouteTables == {<<RouteApi, RouteSecure>>}

AuthNames == {"Restricted"}

\* what the encryption field of an access file may hold
Encryptions == KnownEncryptions \cup {"", "rot13"}

\* the access table of an access file with encryption e: empty, or one user
\* enrolled earlier (under e when e is a known algorithm, else under argon2id:
\* the tag was edited afterwards)
LoadedMaps(e) ==
    LET alg == IF e \in KnownEncryptions THEN e ELSE "argon2id"
    IN  {EmptyMap,
         MapSet(EmptyMap, UserNames[1], Secrets(1, DeriveKey(alg, <<"p">>, 1)))}

\* the stores LoadAccess can return
LoadedStores ==
    UNION {{Access("basic", n, e, m, r) : m \in LoadedMaps(e)} :
              <<n, e, r>> \in AuthNames \X Encryptions \X RouteTables}

Workers == 1..NumWorkers

\* file names, split before the extension
AccessTOML == <<"access", ".toml">>
AccessJSON == <<"access", ".json">>
AccessTXT  == <<"access", ".txt">>

\* no file under fName
Missing == [kind |-> "missing"]

NoError == "ok"

\* a webaccess command: its arguments, what the file held when it began,
\* the lines it printed and how it ended
Command(verb, args, was, out, err) ==
    [verb |-> verb, args |-> args, was |-> was, out |-> out, err |-> err]

NoCommand == Command("none", <<>>, Missing, <<>>, NoError)

\* the serving process runs no webaccess command
NoCommandLine ==
    /\ fName = AccessTOML
    /\ disk = Missing
    /\ cli = NoCommand
    /\ procs = <<>>

\* a goroutine that is not inside a store method
Idle == [op |-> "idle", at |-> "idle", username |-> "", password |-> <<>>, salt |-> NoSalt]

NoRequest == Request("", <<>>, NoAuthorization)
NoOutcome == Outcome(NoResponse, <<>>, <<>>)

Observation(op, username, password, result, req, outcome) ==
    [op |-> op, username |-> username, password |-> password, result |-> result,
     req |-> req, outcome |-> outcome]

Init ==
    /\ a \in LoadedStores \cup {Nil}
    /\ last = Observation("none", "", <<>>, FALSE, NoRequest, NoOutcome)
    /\ calls = [w \in Workers |-> Idle]
    /\ fault = FALSE
    /\ NoCommandLine

UpdateAccess(username, password) ==
    /\ a # Nil
    /\ \E salt \in Salts, randOk \in BOOLEAN :
        LET r == UpdateAccessOn(a, username, password, salt, randOk)
        IN  /\ a' = r.store
            /\ last' = Observation("UpdateAccess", username, password, r.result,
                                   NoRequest, NoOutcome)
    /\ UNCHANGED <<calls, fault>>
    /\ UNCHANGED cliVars

RemoveAccess(username) ==
    /\ a # Nil
    /\ LET r == RemoveAccessOn(a, username)
       IN  /\ a' = r.store
           /\ last' = Observation("RemoveAccess", username, <<>>, r.result,
                                  NoRequest, NoOutcome)
    /\ UNCHANGED <<calls, fault>>
    /\ UNCHANGED cliVars

Login(username, password) ==
    /\ a # Nil
    /\ a' = a
    /\ last' = Observation("Login", username, password,
                           LoginOn(a, username, password), NoRequest, NoOutcome)
    /\ UNCHANGED <<calls, fault>>
    /\ UNCHANGED cliVars

\* one request served by a.Handler(next)
\* variant of the Handler step: once a request has passed with credentials,
\* the next request is passed on without a login
Handler_RemembersLogin(req) ==
    /\ a' = a
    /\ last' = Observation("Handler", "", <<>>, FALSE, req,
                    IF /\ last.op = "Handler"
                       /\ last.outcome.loginCalls # <<>>
                       /\ last.outcome.nextCalls # <<>>
                    THEN Outcome(NextServeHTTP(NoResponse), <<req>>, <<>>)
                    ELSE HandlerServeHTTP(a, req))
    /\ UNCHANGED <<calls, fault>>
    /\ UNCHANGED cliVars

Handler(req) ==
    /\ a' = a
    /\ last' = Observation("Handler", "", <<>>, FALSE, req, HandlerServeHTTP(a, req))
    /\ UNCHANGED <<calls, fault>>
    /\ UNCHANGED cliVars

\* one request served by AccessHandler(next, a)
AccessHandler(req) ==
    /\ a' = a
    /\ last' = Observation("AccessHandler", "", <<>>, FALSE, req,
                           AccessHandlerServeHTTP(a, req))
    /\ UNCHANGED <<calls, fault>>
    /\ UNCHANGED cliVars

Next ==
    \/ \E u \in Usernames, p \in Passwords : UpdateAccess(u, p)
    \/ \E u \in Usernames : RemoveAccess(u)
    \/ \E u \in Usernames, p \in Passwords : Login(u, p)
    \/ \E req \in Requests : Handler(req)
    \/ \E req \in Requests : AccessHandler(req)

Spec == Init /\ [][Next]_vars

----------------------------------------------------------------------------
(* Goroutines.  The HTTP server runs each request in its own goroutine and *)
(* the store methods take no lock, so a method of one goroutine can be     *)
(* inside a map access while another goroutine is inside one too.  A call  *)
(* is split where it enters and leaves its access to a.Map.                *)

InCall(w, username, password, op, at, salt) ==
    [calls EXCEPT ![w] = [op |-> op, at |-> at, username |-> username,
                          password |-> password, salt |-> salt]]

\* goroutine w is reading a.Map (runtime mapaccess)
Reading(w) == calls[w].at = "mapaccess"
\* goroutine w is writing a.Map (runtime mapassign or mapdelete)
Writing(w) == calls[w].at \in {"mapassign", "mapdelete"}

\* the map access of w overlaps a write of another goroutine / any access of
\* another goroutine: a data race on the map
ReadRaced(w)  == \E v \in Workers \ {w} : Writing(v)
WriteRaced(w) == \E v \in Workers \ {w} : Writing(v) \/ Reading(v)

\* stores the concurrent runs start from: freshly initialised or with one
\* user enrolled, encryption unset or argon2id
ConcStores ==
    {Access("basic", n, e, m, <<RouteSecure>>) :
        n \in AuthNames, e \in {"", "argon2id"},
        m \in {EmptyMap,
                MapSet(EmptyMap, UserNames[1],
                       Secrets(1, DeriveKey("argon2id", <<"p">>, 1)))}}

ConcInit ==
    /\ a \in ConcStores
    /\ last = Observation("none", "", <<>>, FALSE, NoRequest, NoOutcome)
    /\ calls = [w \in Workers |-> Idle]
    /\ fault = FALSE
    /\ NoCommandLine

\* the runtime detects the concurrent map access and aborts the process
FatalError(w) ==
    /\ ~fault
    /\ \/ Reading(w) /\ ReadRaced(w)
       \/ Writing(w) /\ WriteRaced(w)
    /\ fault' = TRUE
    /\ UNCHANGED <<a, last, calls>>
    /\ UNCHANGED cliVars

\* Login up to its lookup a.Map[username]
LoginEnter(w, username, password) ==
    /\ ~fault
    /\ calls[w] = Idle
    /\ calls' = InCall(w, username, password, "Login", "mapaccess", NoSalt)
    /\ UNCHANGED <<a, last, fault>>
    /\ UNCHANGED cliVars

\* Login from the lookup to its return; a lookup that raced a write may
\* have seen anything
LoginReturn(w) ==
    /\ ~fault
    /\ calls[w].op = "Login" /\ Reading(w)
    /\ \E result \in BOOLEAN :
        /\ ReadRaced(w) \/ result = LoginOn(a, calls[w].username, calls[w].password)
        /\ last' = Observation("Login", calls[w].username, calls[w].password, result,
                               NoRequest, NoOutcome)
    /\ calls' = [calls EXCEPT ![w] = Idle]
    /\ UNCHANGED <<a, fault>>
    /\ UNCHANGED cliVars

\* UpdateAccess up to its assignment a.Map[username] = secret, or to its
\* return of false
UpdateAccessEnter(w, username, password) ==
    /\ ~fault
    /\ calls[w] = Idle
    /\ \E salt \in Salts, randOk \in BOOLEAN :
        LET enc == IF a.Encryption = "" THEN "argon2id" ELSE a.Encryption
        IN  /\ a' = [a EXCEPT !.Encryption = enc]
            /\ IF randOk /\ enc \in KnownEncryptions
               THEN /\ calls' = InCall(w, username, password, "UpdateAccess",
                                       "mapassign", salt)
                    /\ last' = last
               ELSE /\ calls' = calls
                    /\ last' = Observation("UpdateAccess", username, password, FALSE,
                                           NoRequest, NoOutcome)
    /\ UNCHANGED fault
    /\ UNCHANGED cliVars

\* the assignment completes and UpdateAccess returns true
UpdateAccessReturn(w) ==
    /\ ~fault
    /\ calls[w].op = "UpdateAccess" /\ calls[w].at = "mapassign"
    /\ a' = [a EXCEPT !.Map =
                MapSet(a.Map, calls[w].username,
                       Secrets(calls[w].salt,
                               DeriveKey(a.Encryption, calls[w].password, calls[w].salt)))]
    /\ last' = Observation("UpdateAccess", calls[w].username, calls[w].password, TRUE,
                           NoRequest, NoOutcome)
    /\ calls' = [calls EXCEPT ![w] = Idle]
    /\ UNCHANGED fault
    /\ UNCHANGED cliVars

\* RemoveAccess up to its lookup a.Map[username]
RemoveAccessEnter(w, username) ==
    /\ ~fault
    /\ calls[w] = Idle
    /\ calls' = InCall(w, username, <<>>, "RemoveAccess", "mapaccess", NoSalt)
    /\ UNCHANGED <<a, last, fault>>
    /\ UNCHANGED cliVars

\* the lookup completes: delete begins, or RemoveAccess returns false
RemoveAccessLookup(w) ==
    /\ ~fault
    /\ calls[w].op = "RemoveAccess" /\ Reading(w)
    /\ \E ok \in BOOLEAN :
        /\ ReadRaced(w) \/ ok = (calls[w].username \in DOMAIN a.Map)
        /\ IF ok
           THEN /\ calls' = [calls EXCEPT ![w].at = "mapdelete"]
                /\ last' = last
           ELSE /\ calls' = [calls EXCEPT ![w] = Idle]
                /\ last' = Observation("RemoveAccess", calls[w].username, <<>>, FALSE,
                                       NoRequest, NoOutcome)
    /\ UNCHANGED <<a, fault>>
    /\ UNCHANGED cliVars

\* the delete completes and RemoveAccess returns true
RemoveAccessReturn(w) ==
    /\ ~fault
    /\ calls[w].op = "RemoveAccess" /\ calls[w].at = "mapdelete"
    /\ a' = [a EXCEPT !.Map = MapDelete(a.Map, calls[w].username)]
    /\ last' = Observation("RemoveAccess", calls[w].username, <<>>, TRUE,
                           NoRequest, NoOutcome)
    /\ calls' = [calls EXCEPT ![w] = Idle]
    /\ UNCHANGED fault
    /\ UNCHANGED cliVars

ConcNext ==
    \/ \E w \in Workers, u \in Usernames, p \in Passwords : LoginEnter(w, u, p)
    \/ \E w \in Workers : LoginReturn(w)
    \/ \E w \in Workers, u \in Usernames, p \in Passwords : UpdateAccessEnter(w, u, p)
    \/ \E w \in Workers : UpdateAccessReturn(w)
    \/ \E w \in Workers, u \in Usernames : RemoveAccessEnter(w, u)
    \/ \E w \in Workers : RemoveAccessLookup(w)
    \/ \E w \in Workers : RemoveAccessReturn(w)
    \/ \E w \in Workers : FatalError(w)

SpecConc == ConcInit /\ [][ConcNext]_vars

\* C10: UpdateAccess, RemoveAccess and Login called concurrently on one
\* Access are serialized: no goroutine reads the username map while another
\* writes it, and no two goroutines write it at the same time.
C10_MapAccessSerialized ==
    \A w \in Workers : \A v \in Workers \ {w} :
        ~(Writing(w) /\ (Reading(v) \/ Writing(v)))

----------------------------------------------------------------------------
(* Strings of the command line *)

\* strings.HasSuffix(s, suffix)
HasSuffix(s, suffix) ==
    /\ Len(s) >= Len(suffix)
    /\ SubSeq(s, Len(s) - Len(suffix) + 1, Len(s)) = suffix

\* the byte value of a character
ByteOf(c) ==
    CASE c = "/" -> 47
      [] c = "a" -> 97
      [] c = "b" -> 98
      [] c = "p" -> 112
      [] c = "s" -> 115
      [] c = "x" -> 120

\* s < t as Go compares strings: bytewise, a proper prefix first
RECURSIVE Less(_, _)
Less(s, t) ==
    IF t = <<>> THEN FALSE
    ELSE IF s = <<>> THEN TRUE
    ELSE IF ByteOf(Head(s)) # ByteOf(Head(t)) THEN ByteOf(Head(s)) < ByteOf(Head(t))
    ELSE Less(Tail(s), Tail(t))

\* x put into the ascending list l
RECURSIVE Insert(_, _)
Insert(x, l) ==
    IF l = <<>> THEN <<x>>
    ELSE IF Less(Head(l), x) THEN <<Head(l)>> \o Insert(x, Tail(l))
    ELSE <<x>> \o l

\* sort.Strings(l)
RECURSIVE SortStrings(_)
SortStrings(l) ==
    IF l = <<>> THEN <<>> ELSE Insert(Head(l), SortStrings(Tail(l)))

----------------------------------------------------------------------------
(* The access file.  A file's content is a text in one syntax: a TOML text  *)
(* is the sequence of its lines (key/value lines and table headers), a JSON *)
(* text is the tree of its values.  A byte slice is written as an array of  *)
(* integers in TOML and as a base64 string in JSON.  A nil map or slice and *)
(* an empty one read alike in the store and are written as a nil one.       *)

\* a text that is neither TOML nor JSON
Garbage == [syntax |-> "garbage", text |-> <<>>]

\* a text in the syntax "toml" or "json"
Text(syntax, text) == [syntax |-> syntax, text |-> text]

\* a TOML value: a "string", an "array" of strings, an array of "integers",
\* or "none" on a table header
TValue(t, v) == [t |-> t, v |-> v]

\* a JSON value: a "string", a "base64" string, an "array", an "object", "null"
JValue(j, v) == [j |-> j, v |-> v]

KeyValue(key, value) == [line |-> "kv", key |-> <<key>>, value |-> value]
TableHeader(path)    == [line |-> "table", key |-> path, value |-> TValue("none", <<>>)]

\* the usernames in ascending order
UserOrder == <<"", "alice", "bob", "carol">>

\* the usernames of a map in the order the encoders write them
SortedKeys(S) ==
    LET keep[i \in 0..Len(UserOrder)] ==
            IF i = 0 THEN <<>>
            ELSE IF UserOrder[i] \in S THEN keep[i - 1] \o <<UserOrder[i]>>
            ELSE keep[i - 1]
    IN  keep[Len(UserOrder)]

\* the lines of one [access.<username>] table: omitempty drops an empty field
SecretsTOML(username, secret) ==
    <<TableHeader(<<"access", username>>)>>
        \o (IF secret.Salt = NoSalt THEN <<>>
            ELSE <<KeyValue("salt", TValue("integers", secret.Salt))>>)
        \o (IF secret.Key = <<>> THEN <<>>
            ELSE <<KeyValue("key", TValue("integers", secret.Key))>>)

RECURSIVE MapTOML(_, _)
MapTOML(map, keys) ==
    IF keys = <<>> THEN <<>>
    ELSE SecretsTOML(Head(keys), map[Head(keys)]) \o MapTOML(map, Tail(keys))

\* the lines of the routes field and of the access table
RoutesTOML(s) ==
    IF s.Routes = <<>> THEN <<>> ELSE <<KeyValue("routes", TValue("array", s.Routes))>>

AccessTOMLTable(s) ==
    IF DOMAIN s.Map = {} THEN <<>>
    ELSE <<TableHeader(<<"access">>)>> \o MapTOML(s.Map, SortedKeys(DOMAIN s.Map))

\* variant of the TOML encoder: fields written in the order of the struct,
\* the routes after the access tables
EncodeTOML_StructOrder(s) ==
    Text("toml", <<KeyValue("auth_type", TValue("string", s.AuthType)),
               KeyValue("auth_name", TValue("string", s.AuthName)),
               KeyValue("encryption", TValue("string", s.Encryption))>>
             \o AccessTOMLTable(s) \o RoutesTOML(s))

\* toml.NewEncoder(buf).Encode(a): the plain fields first, then the tables
EncodeTOML(s) ==
    Text("toml", <<KeyValue("auth_type", TValue("string", s.AuthType)),
               KeyValue("auth_name", TValue("string", s.AuthName)),
               KeyValue("encryption", TValue("string", s.Encryption))>>
             \o RoutesTOML(s) \o AccessTOMLTable(s))

ZeroAccess == Access("", "", "", EmptyMap, <<>>)
ZeroSecrets == Secrets(NoSalt, <<>>)

\* what a decoder returns: the store, and whether the text was accepted
Decoded(s, ok) == [a |-> s, ok |-> ok]

\* one line of a TOML text read into the store being built; table is the
\* table the line stands in
DecodeTOMLLine(s, table, l) ==
    LET k == l.key[1]
        v == l.value
    IN  IF table = <<>>
        THEN CASE k = "auth_type"  -> Decoded([s EXCEPT !.AuthType = v.v], v.t = "string")
               [] k = "auth_name"  -> Decoded([s EXCEPT !.AuthName = v.v], v.t = "string")
               [] k = "encryption" -> Decoded([s EXCEPT !.Encryption = v.v], v.t = "string")
               [] k = "routes"     -> Decoded([s EXCEPT !.Routes = v.v], v.t = "array")
               [] k = "access"     -> Decoded(s, FALSE)
               [] OTHER            -> Decoded(s, TRUE)
        ELSE IF table = <<"access">>
        THEN Decoded(s, FALSE)      \* a value that is not a table where a *Secrets goes
        ELSE IF Len(table) = 2 /\ table[1] = "access"
        THEN CASE k = "salt" -> Decoded([s EXCEPT !.Map[table[2]].Salt = v.v], v.t = "integers")
               [] k = "key"  -> Decoded([s EXCEPT !.Map[table[2]].Key = v.v], v.t = "integers")
               [] OTHER      -> Decoded(s, TRUE)
        ELSE Decoded(s, TRUE)       \* keys the struct has no field for are skipped

\* the lines from the i-th on read into s
RECURSIVE DecodeTOMLLines(_, _, _, _)
DecodeTOMLLines(lines, i, table, s) ==
    IF i > Len(lines) THEN Decoded(s, TRUE)
    ELSE LET l == lines[i]
         IN  IF l.line = "table"
             THEN IF Len(l.key) = 2 /\ l.key[1] = "access"
                  THEN DecodeTOMLLines(lines, i + 1, l.key,
                           [s EXCEPT !.Map = MapSet(s.Map, l.key[2], ZeroSecrets)])
                  ELSE DecodeTOMLLines(lines, i + 1, l.key, s)
             ELSE LET d == DecodeTOMLLine(s, table, l)
                  IN  IF d.ok THEN DecodeTOMLLines(lines, i + 1, table, d.a)
                      ELSE Decoded(Nil, FALSE)

\* toml.Decode(string(src), &auth)
DecodeTOML(content) ==
    IF content.syntax = "toml"
    THEN DecodeTOMLLines(content.text, 1, <<>>, ZeroAccess)
    ELSE Decoded(Nil, FALSE)

\* a *Secrets: salt has omitempty; the tag of Key is "key, omitempty", whose
\* option is not omitempty, so key is always written, null for a nil slice
SecretsJSON(secret) ==
    IF secret.Salt = NoSalt
    THEN JValue("object", [k \in {"key"} |->
                    IF secret.Key = <<>> THEN JValue("null", <<>>) ELSE JValue("base64", secret.Key)])
    ELSE JValue("object", [k \in {"salt", "key"} |->
                    IF k = "salt" THEN JValue("base64", secret.Salt)
                    ELSE IF secret.Key = <<>> THEN JValue("null", <<>>) ELSE JValue("base64", secret.Key)])

\* json.MarshalIndent(a, "", "    ")
MarshalJSON(s) ==
    Text("json", JValue("object", 
        [auth_type  |-> JValue("string", s.AuthType),
         auth_name  |-> JValue("string", s.AuthName),
         encryption |-> JValue("string", s.Encryption),
         access     |-> IF DOMAIN s.Map = {} THEN JValue("null", <<>>)
                        ELSE JValue("object", [u \in DOMAIN s.Map |-> SecretsJSON(s.Map[u])]),
         routes     |-> IF s.Routes = <<>> THEN JValue("null", <<>>) ELSE JValue("array", s.Routes)]))

\* the value of a field of a JSON object, null when the object has none
Field(obj, k) == IF k \in DOMAIN obj.v THEN obj.v[k] ELSE JValue("null", <<>>)

\* a JSON value read into a []byte, a string, a []string: null leaves the
\* zero value, any other kind of value is an error
UnmarshalBytes(v, zero) ==
    CASE v.j = "null"   -> Decoded(zero, TRUE)
      [] v.j = "base64" -> Decoded(v.v, TRUE)
      [] OTHER          -> Decoded(zero, FALSE)

UnmarshalString(v) ==
    CASE v.j = "null"   -> Decoded("", TRUE)
      [] v.j = "string" -> Decoded(v.v, TRUE)
      [] OTHER          -> Decoded("", FALSE)

UnmarshalStrings(v) ==
    CASE v.j = "null"  -> Decoded(<<>>, TRUE)
      [] v.j = "array" -> Decoded(v.v, TRUE)
      [] OTHER         -> Decoded(<<>>, FALSE)

UnmarshalSecrets(v) ==
    IF v.j # "object" THEN Decoded(ZeroSecrets, v.j = "null")
    ELSE LET salt == UnmarshalBytes(Field(v, "salt"), NoSalt)
             key  == UnmarshalBytes(Field(v, "key"), <<>>)
         IN  Decoded(Secrets(salt.a, key.a), salt.ok /\ key.ok)

UnmarshalMap(v) ==
    IF v.j # "object" THEN Decoded(EmptyMap, v.j = "null")
    ELSE Decoded([u \in DOMAIN v.v |-> UnmarshalSecrets(v.v[u]).a],
                 \A u \in DOMAIN v.v : UnmarshalSecrets(v.v[u]).ok)

\* json.Unmarshal(src, &auth)
UnmarshalJSON(content) ==
    IF content.syntax # "json" \/ content.text.j # "object"
    THEN Decoded(Nil, FALSE)
    ELSE LET obj        == content.text
             authType   == UnmarshalString(Field(obj, "auth_type"))
             authName   == UnmarshalString(Field(obj, "auth_name"))
             encryption == UnmarshalString(Field(obj, "encryption"))
             map        == UnmarshalMap(Field(obj, "access"))
             routes     == UnmarshalStrings(Field(obj, "routes"))
         IN  IF authType.ok /\ authName.ok /\ encryption.ok /\ map.ok /\ routes.ok
             THEN Decoded(Access(authType.a, authName.a, encryption.a, map.a, routes.a),
                          TRUE)
             ELSE Decoded(Nil, FALSE)

\* what LoadAccess returns
Loaded(s, err) == [a |-> s, err |-> err]

\* loadAccessTOML and loadAccessJSON: ioutil.ReadFile, then the decoder
loadAccessTOML(content) ==
    IF content = Missing THEN Loaded(Nil, "no such file or directory")
    ELSE IF DecodeTOML(content).ok THEN Loaded(DecodeTOML(content).a, NoError)
    ELSE Loaded(Nil, "decode error")

loadAccessJSON(content) ==
    IF content = Missing THEN Loaded(Nil, "no such file or directory")
    ELSE IF UnmarshalJSON(content).ok THEN Loaded(UnmarshalJSON(content).a, NoError)
    ELSE Loaded(Nil, "decode error")

\* variant of LoadAccess: a name with another extension is read as TOML
LoadAccess_AnyExtension(name, content) ==
    IF HasSuffix(name, <<".json">>) THEN loadAccessJSON(content)
    ELSE loadAccessTOML(content)

\* LoadAccess(fName), content being what the file system holds under the name
LoadAccess(name, content) ==
    CASE HasSuffix(name, <<".toml">>) -> loadAccessTOML(content)
      [] HasSuffix(name, <<".json">>) -> loadAccessJSON(content)
      [] OTHER                        -> Loaded(Nil, "unsupported format")

\* what DumpAccess leaves on the disk and returns
Dumped(content, err) == [disk |-> content, err |-> err]

\* a.DumpAccess(fName): ioutil.WriteFile replaces the content
DumpAccess(s, name, content) ==
    CASE HasSuffix(name, <<".toml">>) -> Dumped(EncodeTOML(s), NoError)
      [] HasSuffix(name, <<".json">>) -> Dumped(MarshalJSON(s), NoError)
      [] OTHER                        -> Dumped(content, "unsupported format")

----------------------------------------------------------------------------
(* webaccess routes: updateRoutes, removeRoutes, manageRoutes.  Each command *)
(* is one run of the program: it loads the file, works on the store in its  *)
(* memory and writes the file back when it succeeds.                        *)

\* what a command leaves behind: the store in its memory, the file, the error
Ran(s, content, err) == [a |-> s, disk |-> content, err |-> err]

\* variant of the normalisation: only the leading slash is added
WithSlashes_LeadingOnly(arg) ==
    IF HasPrefix(arg, <<"/">>) THEN arg ELSE <<"/">> \o arg

\* the argument of routes update as it is stored
WithSlashes(arg) ==
    LET lead == IF HasPrefix(arg, <<"/">>) THEN arg ELSE <<"/">> \o arg
    IN  IF HasSuffix(lead, <<"/">>) THEN lead ELSE lead \o <<"/">>

\* the argument of routes remove as it is compared
WithLeadingSlash(arg) ==
    IF HasPrefix(arg, <<"/">>) THEN arg ELSE <<"/">> \o arg

\* variant of the collision test: only a stored route that is a prefix of
\* the argument collides
Collides_OneWay(routes, arg) ==
    \E i \in 1..Len(routes) : HasPrefix(arg, routes[i])

\* the inner loop of updateRoutes: arg collides with a stored route
Collides(routes, arg) ==
    \E i \in 1..Len(routes) : HasPrefix(arg, routes[i]) \/ HasPrefix(routes[i], arg)

\* variant of the comparison: a stored route the argument is a prefix of matches
Matches_ByPrefix(arg, route) == HasPrefix(route, arg)

\* strings.Compare(arg, route) == 0
Matches(arg, route) == arg = route

\* updateRoutes(fName, a, args)
RECURSIVE updateRoutes(_, _, _, _)
updateRoutes(s, args, name, content) ==
    IF args = <<>>
    THEN Ran(s, DumpAccess(s, name, content).disk, DumpAccess(s, name, content).err)
    ELSE LET arg == WithSlashes(Head(args))
         IN  IF Collides(s.Routes, arg)
             THEN Ran(s, content, "collides with")
             ELSE updateRoutes([s EXCEPT !.Routes = SortStrings(Append(s.Routes, arg))],
                               Tail(args), name, content)

\* the loop  for i, route := range a.Routes  of removeRoutes.  The range
\* walks the n elements of the array the slice had when the loop began;
\* append(a.Routes[:i], a.Routes[i+1:]...) moves the elements after the
\* i-th one place down in that same array and shortens a.Routes, of length
\* m, by one.  a.Routes[i+1:] panics when the slice is already shorter.
Scan(arr, m, found, panic) == [arr |-> arr, m |-> m, found |-> found, panic |-> panic]

RECURSIVE RangeRoutes(_, _, _, _, _)
RangeRoutes(arr, m, i, arg, found) ==
    IF i > Len(arr) THEN Scan(arr, m, found, FALSE)
    ELSE IF ~Matches(arg, arr[i]) THEN RangeRoutes(arr, m, i + 1, arg, found)
    ELSE IF i > m THEN Scan(arr, m, found, TRUE)
    ELSE RangeRoutes([k \in 1..Len(arr) |->
                         IF i <= k /\ k <= m - 1 THEN arr[k + 1] ELSE arr[k]],
                     m - 1, i + 1, arg, TRUE)

\* removeRoutes(fName, a, args)
RECURSIVE removeRoutes(_, _, _, _)
removeRoutes(s, args, name, content) ==
    IF args = <<>>
    THEN LET sorted == [s EXCEPT !.Routes = SortStrings(s.Routes)]
         IN  Ran(sorted, DumpAccess(sorted, name, content).disk,
                 DumpAccess(sorted, name, content).err)
    ELSE LET arg  == WithLeadingSlash(Head(args))
             scan == RangeRoutes(s.Routes, Len(s.Routes), 1, arg, FALSE)
             s1   == [s EXCEPT !.Routes = SubSeq(scan.arr, 1, scan.m)]
         IN  IF scan.panic THEN Ran(s1, content, "panic: slice bounds out of range")
             ELSE IF ~scan.found THEN Ran(s1, content, "Could not find route")
             ELSE removeRoutes(s1, Tail(args), name, content)

\* variant of manageRoutes: the store is written back as the command leaves it,
\* also when an argument was refused
manageRoutes_DumpsOnError(verb, name, content, args) ==
    LET l == LoadAccess(name, content)
        r == CASE verb = "update" -> updateRoutes(l.a, args, name, content)
               [] verb = "remove" -> removeRoutes(l.a, args, name, content)
               [] OTHER           -> Ran(l.a, content,
                                         IF verb = "list" THEN NoError
                                         ELSE "Unknown route action")
    IN  IF l.err # NoError THEN Ran(Nil, content, l.err)
        ELSE IF r.err \in {"collides with", "Could not find route"}
        THEN Ran(r.a, DumpAccess(r.a, name, content).disk, r.err)
        ELSE r

\* manageRoutes(args) for args = verb, fName, args...
manageRoutes(verb, name, content, args) ==
    LET l == LoadAccess(name, content)
    IN  IF l.err # NoError THEN Ran(Nil, content, l.err)
        ELSE CASE verb = "list"   -> Ran(l.a, content, NoError)
               [] verb = "update" -> updateRoutes(l.a, args, name, content)
               [] verb = "remove" -> removeRoutes(l.a, args, name, content)
               [] OTHER           -> Ran(l.a, content, "Unknown route action")

\* listRoutes(a): the lines routes list prints
listRoutes(verb, r) ==
    IF verb = "list" /\ r.err = NoError THEN r.a.Routes ELSE <<>>

\* the store initAccess writes
InitStore == Access("basic", "", "argon2id", EmptyMap, <<>>)

NumRouteArgs == 3   \* route arguments taken from RouteArgTable[1..NumRouteArgs]
MaxArgs      == 2   \* route arguments of one command

RouteArgTable ==
    << <<"a", "/">>, <<"/", "a", "/", "b", "/">>, <<"b">>, <<"/", "a", "/">>,
       <<"/", "b", "/">>, <<>> >>
RouteArgs == {RouteArgTable[i] : i \in 1..NumRouteArgs}

RouteArgLists == UNION {[1..n -> RouteArgs] : n \in 0..MaxArgs}

\* the state after  webaccess init FILE : no route is stored
RoutesInit ==
    /\ fName \in {AccessTOML, AccessJSON}
    /\ a = InitStore
    /\ disk = DumpAccess(InitStore, fName, Missing).disk
    /\ cli = Command("init", <<>>, Missing, <<>>, NoError)
    /\ procs = <<>>
    /\ last = Observation("none", "", <<>>, FALSE, NoRequest, NoOutcome)
    /\ calls = [w \in Workers |-> Idle]
    /\ fault = FALSE

\* webaccess routes VERB FILE ARGS...
ManageRoutes(verb, args) ==
    LET r == manageRoutes(verb, fName, disk, args)
    IN  /\ a' = r.a
        /\ disk' = r.disk
        /\ cli' = Command(verb, args, disk, listRoutes(verb, r), r.err)
        /\ UNCHANGED <<fName, last, calls, fault, procs>>

RoutesNext ==
    \/ \E verb \in {"update", "remove"}, args \in RouteArgLists :
           ManageRoutes(verb, args)
    \/ \E verb \in {"list", "add"} : ManageRoutes(verb, <<>>)

SpecRoutes == RoutesInit /\ [][RoutesNext]_vars

----------------------------------------------------------------------------
(* webaccess init, update, remove, list, test.  The user argument of a      *)
(* command may be left out; main then passes the empty string.              *)

\* initAccess(fName): os.Stat must find nothing under the name
initAccessOn(name, content) ==
    IF content # Missing THEN Ran(Nil, content, "already exists")
    ELSE Ran(InitStore, DumpAccess(InitStore, name, content).disk,
             DumpAccess(InitStore, name, content).err)

\* variant of updateAccess: the store is written back whatever UpdateAccess returned
updateAccessOn_AlwaysDumps(name, content, username, password, salt, randOk) ==
    LET l == LoadAccess(name, content)
    IN  IF l.err # NoError THEN Ran(Nil, content, l.err)
        ELSE LET u == UpdateAccessOn(l.a, username, password, salt, randOk)
                 d == DumpAccess(u.store, name, content)
             IN  Ran(u.store, d.disk, IF u.result THEN d.err ELSE "Failed to update")

\* updateAccess(fName, username, password)
updateAccessOn(name, content, username, password, salt, randOk) ==
    LET l == LoadAccess(name, content)
    IN  IF l.err # NoError THEN Ran(Nil, content, l.err)
        ELSE LET u == UpdateAccessOn(l.a, username, password, salt, randOk)
             IN  IF ~u.result THEN Ran(u.store, content, "Failed to update")
                 ELSE Ran(u.store, DumpAccess(u.store, name, content).disk,
                          DumpAccess(u.store, name, content).err)

\* removeAccess(fName, username)
removeAccessOn(name, content, username) ==
    LET l == LoadAccess(name, content)
    IN  IF l.err # NoError THEN Ran(Nil, content, l.err)
        ELSE LET r == RemoveAccessOn(l.a, username)
             IN  IF ~r.result THEN Ran(r.store, content, "Failed to find")
                 ELSE Ran(r.store, DumpAccess(r.store, name, content).disk,
                          DumpAccess(r.store, name, content).err)

\* listAccess(fName)
listAccessOn(name, content) ==
    Ran(LoadAccess(name, content).a, content, LoadAccess(name, content).err)

\* the lists listAccess can print: the keys of the map that are not empty,
\* in the order the range over the map happens to take
Listings(s) ==
    LET keys == DOMAIN s.Map \ {""}
    IN  {l \in [1..Cardinality(keys) -> keys] :
            \A i \in DOMAIN l : \A j \in DOMAIN l : i # j => l[i] # l[j]}

\* testAccess(fName, username, password)
testAccessOn(name, content, username, password) ==
    IF content = Missing THEN Ran(Nil, content, "no such file or directory")
    ELSE LET l == LoadAccess(name, content)
         IN  IF l.err # NoError THEN Ran(Nil, content, l.err)
             ELSE IF LoginOn(l.a, username, password) THEN Ran(l.a, content, NoError)
             ELSE Ran(l.a, content, "Failed to authenticate")

FileNames == {AccessTOML, AccessJSON, AccessTXT}

\* the USER argument of a command: given, or left out
UserArguments == {"alice", ""}

\* what the access file can hold before the first command: nothing, a text
\* in neither syntax, or a store written by hand or by an earlier run
FileContents ==
    {Missing, Garbage}
        \cup {EncodeTOML(s) : s \in LoadedStores}
        \cup {MarshalJSON(s) : s \in LoadedStores}

CliInit ==
    /\ fName \in FileNames
    /\ disk \in FileContents
    /\ a = Nil
    /\ cli = NoCommand
    /\ procs = <<>>
    /\ last = Observation("none", "", <<>>, FALSE, NoRequest, NoOutcome)
    /\ calls = [w \in Workers |-> Idle]
    /\ fault = FALSE

\* the command has run with result r and printed out
Exit(verb, args, out, r) ==
    /\ a' = r.a
    /\ disk' = r.disk
    /\ cli' = Command(verb, args, disk, out, r.err)
    /\ UNCHANGED <<fName, last, calls, fault, procs>>

\* webaccess init FILE
initAccess ==
    Exit("init", <<>>, <<>>, initAccessOn(fName, disk))

\* webaccess update FILE [USER], the password read from the terminal
updateAccess(username, password) ==
    \E salt \in Salts, randOk \in BOOLEAN :
        Exit("update", <<username, password>>, <<>>,
             updateAccessOn(fName, disk, username, password, salt, randOk))

\* webaccess remove FILE [USER]
removeAccess(username) ==
    Exit("remove", <<username>>, <<>>, removeAccessOn(fName, disk, username))

\* webaccess list FILE
listAccess ==
    LET r == listAccessOn(fName, disk)
    IN  IF r.err # NoError THEN Exit("list", <<>>, <<>>, r)
        ELSE \E out \in Listings(r.a) : Exit("list", <<>>, out, r)

\* webaccess test FILE [USER], the password read from the terminal
testAccess(username, password) ==
    Exit("test", <<username, password>>, <<>>,
         testAccessOn(fName, disk, username, password))

CliNext ==
    \/ initAccess
    \/ \E username \in UserArguments, password \in Passwords :
           updateAccess(username, password)
    \/ \E username \in UserArguments : removeAccess(username)
    \/ listAccess
    \/ \E username \in UserArguments, password \in Passwords :
           testAccess(username, password)

SpecCli == CliInit /\ [][CliNext]_vars

----------------------------------------------------------------------------
(* The gate in front of a store that no one changes: the web server loads  *)
(* the access file once and then only serves requests.  auth_type and       *)
(* auth_name are whatever the file says.                                    *)

GateStores ==
    {[s EXCEPT !.AuthType = t, !.AuthName = n] :
        s \in LoadedStores, t \in {"basic", "digest"}, n \in AuthNames \cup {""}}

GateInit ==
    /\ a \in GateStores \cup {Nil}
    /\ last = Observation("none", "", <<>>, FALSE, NoRequest, NoOutcome)
    /\ calls = [w \in Workers |-> Idle]
    /\ fault = FALSE
    /\ NoCommandLine

GateNext ==
    \/ \E req \in Requests : Handler(req)
    \/ \E req \in Requests : AccessHandler(req)

SpecGate == GateInit /\ [][GateNext]_vars

----------------------------------------------------------------------------
(* The webserver command.  Its configuration names fName as access_file, or *)
(* no access file; main loads the configuration and runs the service, and   *)
(* webaccess commands, processes of their own, change the file meanwhile.   *)

NoAccessFile == <<"", "">>

\* variant of LoadWebService: the error of LoadAccess is not returned
LoadWebService_DropsError(AccessFile, content) ==
    IF AccessFile = NoAccessFile THEN Loaded(Nil, NoError)
    ELSE Loaded(LoadAccess(AccessFile, content).a, NoError)

\* LoadWebService(setup) from the point where the configuration is decoded:
\* ws.Access and the error it returns
LoadWebService(AccessFile, content) ==
    IF AccessFile = NoAccessFile THEN Loaded(Nil, NoError)
    ELSE LoadAccess(AccessFile, content)

ServerInit ==
    /\ fName \in {AccessTOML, AccessTXT, NoAccessFile}
    /\ disk \in {Missing, Garbage}
                \cup {EncodeTOML(s) : s \in {t \in LoadedStores : t.Encryption = "argon2id"}}
    /\ fName = NoAccessFile => disk = Missing
    /\ a = Nil
    /\ cli = NoCommand
    /\ procs = <<>>
    /\ last = Observation("none", "", <<>>, FALSE, NoRequest, NoOutcome)
    /\ calls = [w \in Workers |-> Idle]
    /\ fault = FALSE

Started == last.op # "none"

\* main of webserver, called without arguments, up to webservice.Run()
webserverMain ==
    LET ws == LoadWebService(fName, disk)
    IN  /\ ~Started
        /\ a' = ws.a
        /\ fault' = (ws.err # NoError)
        /\ last' = Observation("LoadWebService", "", <<>>, ws.err = NoError,
                               NoRequest, NoOutcome)
        /\ UNCHANGED calls
        /\ UNCHANGED cliVars

\* one request served by the handler Run has built around w.Access
Run(req) ==
    /\ Started
    /\ ~fault
    /\ AccessHandler(req)

\* variant of a command beside the server: the server takes over the store
\* the command has written
Beside_ServerReloads(verb, args, r) ==
    /\ fName # NoAccessFile
    /\ disk' = r.disk
    /\ cli' = [verb |-> verb, args |-> args, err |-> r.err]
    /\ a' = IF Started /\ ~fault /\ r.err = NoError THEN r.a ELSE a
    /\ UNCHANGED <<fName, last, calls, fault, procs>>

\* a webaccess command that runs beside the server, with result r: a change
\* of alice's entry or of the route /a/
Beside(verb, args, r) ==
    /\ fName # NoAccessFile
    /\ disk' = r.disk
    /\ cli' = [verb |-> verb, args |-> args, err |-> r.err]
    /\ UNCHANGED <<a, fName, last, calls, fault, procs>>

ServerNext ==
    \/ webserverMain
    \/ \E req \in Requests : Run(req)
    \/ \E password \in Passwords, salt \in Salts :
           Beside("update", <<UserNames[1], password>>,
                  updateAccessOn(fName, disk, UserNames[1], password, salt, TRUE))
    \/ Beside("remove", <<UserNames[1]>>, removeAccessOn(fName, disk, UserNames[1]))
    \/ \E verb \in {"update", "remove"} :
           Beside(verb, <<RouteArgTable[1]>>,
                  manageRoutes(verb, fName, disk, <<RouteArgTable[1]>>))

SpecServer == ServerInit /\ [][ServerNext]_vars

----------------------------------------------------------------------------
(* webaccess commands run at the same time on one access file.  Each is a   *)
(* process of its own: it reads the file into its memory with LoadAccess,   *)
(* changes the store there, and writes it back with DumpAccess.  Nothing in *)
(* the commands locks the file, so the reads and writes of two commands may *)
(* come in any order.                                                       *)

NumCommands == 2   \* commands running at the same time

\* a mutating command line: webaccess VERB FILE ARGS or, with routes set,
\* webaccess routes VERB FILE ARGS; salt is the salt crypto/rand gives it
CommandLine(routes, verb, args, salt) ==
    [routes |-> routes, verb |-> verb, args |-> args, salt |-> salt]

CommandLines ==
    {CommandLine(FALSE, "update", <<u, p>>, salt) :
         u \in UserArguments, p \in Passwords, salt \in Salts}
        \cup {CommandLine(FALSE, "remove", <<u>>, NoSalt) : u \in UserArguments}
        \cup {CommandLine(TRUE, verb, <<arg>>, NoSalt) :
                  verb \in {"update", "remove"}, arg \in RouteArgs}

\* the command c run alone on a file that holds content
webaccess(c, name, content) ==
    IF c.routes THEN manageRoutes(c.verb, name, content, c.args)
    ELSE IF c.verb = "update"
    THEN updateAccessOn(name, content, c.args[1], c.args[2], c.salt, TRUE)
    ELSE removeAccessOn(name, content, c.args[1])

\* a process: not started, between its LoadAccess and its DumpAccess, ended
Process(at, c, was, err) == [at |-> at, c |-> c, was |-> was, err |-> err]

NotStarted == Process("start", CommandLine(FALSE, "none", <<>>, NoSalt), Missing, NoError)

ParallelInit ==
    /\ fName \in {AccessTOML, AccessJSON}
    /\ \E s \in {InitStore} \cup {t \in LoadedStores : t.Encryption = "argon2id"} :
           disk = DumpAccess(s, fName, Missing).disk
    /\ procs = [i \in 1..NumCommands |-> NotStarted]
    /\ a = Nil
    /\ cli = NoCommand
    /\ last = Observation("none", "", <<>>, FALSE, NoRequest, NoOutcome)
    /\ calls = [w \in Workers |-> Idle]
    /\ fault = FALSE

\* process i starts as command c and reads the file: a, err := LoadAccess(fName)
CommandLoads(i, c) ==
    /\ procs[i].at = "start"
    /\ procs' = [procs EXCEPT ![i] = Process("loaded", c, disk, LoadAccess(fName, disk).err)]
    /\ UNCHANGED <<a, last, calls, fault, fName, disk, cli>>

\* process i changes the store it has read and, unless the change is
\* refused, writes it back: return a.DumpAccess(fName)
CommandDumps(i) ==
    LET r == webaccess(procs[i].c, fName, procs[i].was)
    IN  /\ procs[i].at = "loaded"
        /\ disk' = IF r.err = NoError THEN r.disk ELSE disk
        /\ procs' = [procs EXCEPT ![i] = Process("done", procs[i].c, procs[i].was, r.err)]
        /\ UNCHANGED <<a, last, calls, fault, fName, cli>>

ParallelNext ==
    \/ \E i \in 1..NumCommands, c \in CommandLines : CommandLoads(i, c)
    \/ \E i \in 1..NumCommands : CommandDumps(i)

SpecParallel == ParallelInit /\ [][ParallelNext]_vars

----------------------------------------------------------------------------
(* Properties of the gate *)

Served      == last.op \in {"Handler", "AccessHandler"}
Protected   == a # Nil /\ isAccessRoute(a, last.req.Path)
Unprotected == a # Nil /\ ~isAccessRoute(a, last.req.Path)
\* the request carries Basic credentials that Login accepts on the store
Accepted ==
    /\ last.req.Authorization.kind = "basic"
    /\ LoginOn(a, last.req.Authorization.username, last.req.Authorization.password)

\* C1: on a protected path of a non-nil store the gate (either form) hands
\* the request to the downstream handler only if it carries decodable
\* Basic-Auth credentials that Login accepts on the store as it is then;
\* with absent, undecodable or rejected credentials next is never invoked.
C1_GateRequiresLogin ==
    (Served /\ Protected) =>
        /\ (last.outcome.nextCalls # <<>>) => Accepted
        /\ (~Accepted) => (last.outcome.nextCalls = <<>>)

C1_Witness ==
    /\ Served /\ Protected
    /\ last.outcome.nextCalls # <<>>
    /\ last.req.Authorization.kind = "basic"

\* C2: every request to a protected path that the gate rejects gets status
\* 401 and a WWW-Authenticate header containing realm="<auth_name>" for the
\* store's auth_name.
C2_RejectionIsChallenge ==
    (Served /\ Protected /\ ~Accepted) =>
        /\ last.outcome.res.Status = 401
        /\ Contains(last.outcome.res.WWWAuthenticate,
                    <<"realm=\"", a.AuthName, "\"">>)

C2_Witness ==
    /\ Served /\ Protected
    /\ last.req.Authorization.kind = "none"
    /\ last.outcome.res.Status = 401

\* C3: on a protected path with credentials Login accepts, the gate invokes
\* next exactly once with the request it received; no pass through the gate
\* hands next a request that differs from the one received.
C3_AcceptedPassedUnchanged ==
    /\ (Served /\ Protected /\ Accepted) => (last.outcome.nextCalls = <<last.req>>)
    /\ Served =>
         \A i \in 1..Len(last.outcome.nextCalls) : last.outcome.nextCalls[i] = last.req

C3_Witness ==
    /\ Served /\ Protected /\ Accepted
    /\ last.outcome.nextCalls = <<last.req>>

\* C4: with a non-nil store, a request whose path starts with no stored
\* route reaches next whatever its credentials, and Login is not called.
C4_UnprotectedPassesWithoutLogin ==
    (Served /\ Unprotected) =>
        /\ last.outcome.nextCalls = <<last.req>>
        /\ last.outcome.loginCalls = <<>>

C4_Witness ==
    /\ Served /\ Unprotected
    /\ a.Routes # <<>>
    /\ last.req.Authorization.kind = "basic"
    /\ ~Accepted
    /\ last.outcome.nextCalls = <<last.req>>

\* C5: with a nil store every request reaches next as received and the gate
\* produces no 401 (and no challenge header).
C5_NilStorePassesAll ==
    (Served /\ a = Nil) =>
        /\ last.outcome.nextCalls = <<last.req>>
        /\ last.outcome.res.Status # 401
        /\ last.outcome.res.WWWAuthenticate = NoHeader

C5_Witness ==
    /\ Served /\ a = Nil
    /\ last.req.Path = PathSecureData
    /\ last.req.Authorization.kind = "none"
    /\ last.outcome.nextCalls = <<last.req>>

\* the gate in the form named by op
ServeHTTP(op, s, req) ==
    IF op = "Handler" THEN HandlerServeHTTP(s, req) ELSE AccessHandlerServeHTTP(s, req)

\* C6: when the gate has rejected a request for a protected path that names
\* an enrolled user with a wrong password, its response to a request for the
\* same path naming a user that is not in the store (any password, either
\* form of the gate) is the same in status, headers and body.
C6_UnknownUserIndistinguishable ==
    (/\ Served /\ Protected
     /\ last.req.Authorization.kind = "basic"
     /\ last.req.Authorization.username \in DOMAIN a.Map
     /\ ~Accepted)
    => \A u \in Usernames \ DOMAIN a.Map, p \in Passwords,
          op \in {"Handler", "AccessHandler"} :
            ServeHTTP(op, a, [last.req EXCEPT !.Authorization = BasicAuthorization(u, p)]).res
                = last.outcome.res

C6_Witness ==
    /\ Served /\ Protected
    /\ last.req.Authorization.kind = "basic"
    /\ last.req.Authorization.username \in DOMAIN a.Map
    /\ ~Accepted
    /\ Usernames \ DOMAIN a.Map # {}
    /\ a.Encryption \in KnownEncryptions

----------------------------------------------------------------------------
(* Properties of the store *)

\* Login(u, p) is false for every password p
NoLogin(u) == \A p \in Passwords : ~LoginOn(a, u, p)

\* C7: after UpdateAccess(u, p) returns true the store uses one of the four
\* recognised algorithms, Login(u, p) is true and Login(u, q) is false for
\* every other password q.
C7_EnrollThenLogin ==
    (last.op = "UpdateAccess" /\ last.result) =>
        /\ a.Encryption \in KnownEncryptions
        /\ LoginOn(a, last.username, last.password)
        /\ \A q \in Passwords \ {last.password} : ~LoginOn(a, last.username, q)

C7_Witness ==
    /\ last.op = "UpdateAccess" /\ last.result
    /\ a.Encryption = "sha512"
    /\ LoginOn(a, last.username, last.password)

\* u has no entry in the store
NotEnrolled(u) == a # Nil /\ u \notin DOMAIN a.Map

\* C8: after RemoveAccess(u) returns true u has no entry and Login(u, p) is
\* false for every p; a user without entry fails every Login, and stays
\* without entry through every step that is not a successful UpdateAccess
\* of that user.
C8_RemovedStaysOut ==
    /\ [](last.op = "RemoveAccess" /\ last.result => NotEnrolled(last.username))
    /\ [](\A u \in Usernames : NotEnrolled(u) => NoLogin(u))
    /\ [][\A u \in Usernames :
            (/\ NotEnrolled(u)
             /\ ~(last'.op = "UpdateAccess" /\ last'.username = u /\ last'.result))
            => NotEnrolled(u)']_vars

C8_Witness ==
    /\ last.op = "RemoveAccess" /\ last.result
    /\ a.Encryption \in KnownEncryptions
    /\ NoLogin(last.username)

UnknownEncryption(s) == s.Encryption # "" /\ s.Encryption \notin KnownEncryptions

\* C9: while the encryption tag is non-empty and not one of the four
\* recognised names, UpdateAccess returns false and leaves the entries and
\* the tag as they were, and Login is false for every user and password,
\* users with a stored key included.
C9_UnknownEncryptionFailsClosed ==
    /\ []((a # Nil /\ UnknownEncryption(a)) =>
            /\ \A u \in Usernames : NoLogin(u)
            /\ last.op = "Login" => ~last.result)
    /\ [][(a # Nil /\ UnknownEncryption(a) /\ last'.op = "UpdateAccess")
            => (~last'.result /\ a' = a)]_vars

C9_Witness ==
    /\ a # Nil /\ UnknownEncryption(a)
    /\ DOMAIN a.Map # {}
    /\ last.op = "UpdateAccess" /\ ~last.result

----------------------------------------------------------------------------
(* Properties of the route table *)

\* the store the access file holds, and the one it held when the last
\* command began
Stored == LoadAccess(fName, disk).a
Was    == LoadAccess(fName, cli.was).a

\* the elements of a list
Range(l) == {l[i] : i \in 1..Len(l)}

PrefixFree(routes) ==
    \A i \in 1..Len(routes) : \A j \in 1..Len(routes) :
        i # j => ~HasPrefix(routes[i], routes[j])

Sorted(routes) ==
    \A i \in 1..(Len(routes) - 1) : ~Less(routes[i + 1], routes[i])

\* C11: starting from the empty route table of a fresh access file, after
\* any sequence of routes update and routes remove commands no stored route
\* is a prefix of another stored route and none is stored twice; a routes
\* update with an argument that, with its slashes added, is a prefix of a
\* stored route or has a stored route as a prefix ends with a collision
\* error.
C11_RoutesPrefixFree ==
    /\ PrefixFree(Stored.Routes)
    /\ (/\ cli.verb = "update"
        /\ \E i \in 1..Len(cli.args) : \E r \in Range(Was.Routes) :
               \/ HasPrefix(WithSlashes(cli.args[i]), r)
               \/ HasPrefix(r, WithSlashes(cli.args[i])))
       => cli.err = "collides with"

\* a command was refused for a collision while two routes are stored
C11_Witness ==
    /\ cli.verb = "update"
    /\ cli.err = "collides with"
    /\ Len(Stored.Routes) = 2

\* C12: every stored route begins and ends with "/", and after every
\* successful routes update or routes remove the stored table is in
\* ascending order.
C12_RoutesSlashedAndSorted ==
    /\ \A r \in Range(Stored.Routes) : HasPrefix(r, <<"/">>) /\ HasSuffix(r, <<"/">>)
    /\ (cli.verb \in {"update", "remove"} /\ cli.err = NoError) => Sorted(Stored.Routes)

\* an update whose argument had no slashes went through and left two routes
C12_Witness ==
    /\ cli.verb = "update"
    /\ cli.err = NoError
    /\ \E i \in 1..Len(cli.args) : ~HasPrefix(cli.args[i], <<"/">>)
    /\ Len(Stored.Routes) = 2

\* the routes left when the arguments of routes remove, each with its
\* leading slash added, are taken out one after the other; found is FALSE
\* when one of them was not there
RECURSIVE Without(_, _)
Without(routes, args) ==
    IF args = <<>> THEN [routes |-> routes, found |-> TRUE]
    ELSE LET arg == WithLeadingSlash(Head(args))
         IN  IF arg \notin Range(routes) THEN [routes |-> routes, found |-> FALSE]
             ELSE Without(SelectSeq(routes, LAMBDA r : r # arg), Tail(args))

\* C13 as stated: routes remove takes out exactly the stored routes that are
\* string-equal to its arguments; when an argument equals no stored route
\* the command ends with the not-found error and the file is as it was.
C13_RemovesEqualToArgument ==
    (cli.verb = "remove" /\ \E i \in 1..Len(cli.args) : cli.args[i] \notin Range(Was.Routes))
        => (cli.err = "Could not find route" /\ disk = cli.was)

\* C13: routes remove takes out exactly the stored routes that are
\* string-equal to its arguments once a leading "/" is put before an
\* argument that has none, and leaves every other route where it was; when
\* such an argument equals no stored route the command ends with the
\* not-found error, without a crash, and the file is as it was.
C13_RemovesExactMatch ==
    cli.verb = "remove" =>
        IF Without(Was.Routes, cli.args).found
        THEN cli.err = NoError /\ Stored.Routes = Without(Was.Routes, cli.args).routes
        ELSE cli.err = "Could not find route" /\ disk = cli.was

\* one of two stored routes was removed by an argument without its leading slash
C13_Witness ==
    /\ cli.verb = "remove"
    /\ cli.err = NoError
    /\ Len(Was.Routes) = 2
    /\ Len(Stored.Routes) = 1
    /\ \E i \in 1..Len(cli.args) : ~HasPrefix(cli.args[i], <<"/">>)

----------------------------------------------------------------------------
(* Properties of the access file *)

Supported(name) == HasSuffix(name, <<".toml">>) \/ HasSuffix(name, <<".json">>)

\* the commands that write the store in their memory back when they succeed
Wrote == cli.verb \in {"init", "update", "remove"} /\ cli.err = NoError

\* C14: for a store built in memory and a file name ending in .toml or
\* .json, DumpAccess followed by LoadAccess of the same file yields a store
\* with the same auth_type, auth_name and encryption, the same usernames
\* with equal salt and key for each, and the same routes.
C14_DumpLoadRoundTrip ==
    /\ Wrote => LoadAccess(fName, disk) = Loaded(a, NoError)
    /\ a # Nil =>
         \A name \in {AccessTOML, AccessJSON} :
             LET l == LoadAccess(name, DumpAccess(a, name, Missing).disk)
             IN  /\ l.err = NoError
                 /\ l.a.AuthType = a.AuthType
                 /\ l.a.AuthName = a.AuthName
                 /\ l.a.Encryption = a.Encryption
                 /\ DOMAIN l.a.Map = DOMAIN a.Map
                 /\ \A u \in DOMAIN a.Map :
                        l.a.Map[u].Salt = a.Map[u].Salt /\ l.a.Map[u].Key = a.Map[u].Key
                 /\ l.a.Routes = a.Routes

\* a store with two users and with routes was written to a TOML file
C14_Witness ==
    /\ Wrote
    /\ fName = AccessTOML
    /\ Cardinality(DOMAIN a.Map) = 2
    /\ a.Routes # <<>>

\* a content the decoder of the file's format rejects
Malformed(name, content) ==
    /\ content # Missing
    /\ \/ content = Garbage
       \/ HasSuffix(name, <<".toml">>) /\ content.syntax # "toml"
       \/ HasSuffix(name, <<".json">>) /\ content.syntax # "json"

\* the commands that begin with LoadAccess
Loads == cli.verb \in {"update", "remove", "list"}

\* C15: with a file name that ends in neither .toml nor .json, LoadAccess
\* and DumpAccess return the unsupported-format error whatever is or is not
\* on the disk, and the disk is left as it was; with a recognised extension
\* a missing file and a malformed one give two different errors; whenever
\* LoadAccess returns an error it returns no store.
C15_LoadDumpErrors ==
    /\ (~Supported(fName) /\ Loads)
           => (cli.err = "unsupported format" /\ a = Nil /\ disk = cli.was)
    /\ (~Supported(fName) /\ cli.verb = "init" /\ cli.was = Missing)
           => (cli.err = "unsupported format" /\ disk = Missing)
    /\ (Supported(fName) /\ Loads /\ cli.was = Missing)
           => (cli.err = "no such file or directory" /\ a = Nil /\ disk = cli.was)
    /\ (Supported(fName) /\ Loads /\ Malformed(fName, cli.was))
           => (cli.err = "decode error" /\ a = Nil /\ disk = cli.was)
    /\ (Loads /\ cli.err \in {"unsupported format", "no such file or directory", "decode error"}) => a = Nil

\* a command was refused for the extension of a file that holds a valid text
C15_Witness ==
    /\ ~Supported(fName)
    /\ Loads
    /\ cli.err = "unsupported format"
    /\ cli.was \notin {Missing, Garbage}

\* C16: after any sequence of webaccess update and webaccess remove
\* commands, the user argument left out or not, every username key of the
\* stored map is a non-empty string.
C16_UsernamesNonEmpty ==
    Stored # Nil => "" \notin DOMAIN Stored.Map

\* C19: a successful webaccess update or webaccess remove leaves in the file
\* it loaded the store the file held with exactly that UpdateAccess or
\* RemoveAccess applied; when UpdateAccess returns false or the user to
\* remove is not in the map the command ends with an error and the file is
\* as it was.
C19_CommandsPersistMutation ==
    /\ (cli.verb = "update" /\ cli.err = NoError) =>
         LET u == cli.args[1]
         IN  /\ u \in DOMAIN Stored.Map
             /\ Stored = UpdateAccessOn(Was, u, cli.args[2], Stored.Map[u].Salt, TRUE).store
    /\ (cli.verb = "remove" /\ cli.err = NoError) =>
         /\ cli.args[1] \in DOMAIN Was.Map
         /\ Stored = RemoveAccessOn(Was, cli.args[1]).store
    /\ (cli.verb = "update" /\ Was # Nil /\ cli.err # NoError) =>
         (cli.err = "Failed to update" /\ disk = cli.was)
    /\ (cli.verb = "remove" /\ Was # Nil /\ cli.args[1] \notin DOMAIN Was.Map) =>
         (cli.err = "Failed to find" /\ disk = cli.was)

\* an update failed on a file whose encryption tag is empty
C19_Witness ==
    /\ cli.verb = "update"
    /\ cli.err = "Failed to update"
    /\ Was # Nil
    /\ Was.Encryption = ""

----------------------------------------------------------------------------
(* Properties of the challenge, of the gate over time, of the stored key *)

Challenged == Served /\ Protected /\ last.outcome.res.Status = StatusUnauthorized

C18_GateKeepsNoSession ==
    /\ [](Served => last.outcome = ServeHTTP(last.op, a, last.req))
    /\ [][(Served /\ Protected /\ Accepted)
            => ((Protected /\ ~Accepted)' => last'.outcome.res.Status = StatusUnauthorized)]_vars
    /\ [][a' = a]_vars

\* a request with valid credentials has just been passed on by Handler
C18_Witness ==
    /\ last.op = "Handler"
    /\ Protected /\ Accepted
    /\ last.outcome.res.Status = StatusOK
    /\ last.outcome.loginCalls # <<>>

\* C20: for each of argon2id, pbkdf2, md5 and sha512, the key UpdateAccess
\* stores for a user does not contain the bytes of the user's password.
C20_KeyHidesPassword ==
    (last.op = "UpdateAccess" /\ last.result /\ last.password # <<>>)
        => ~Contains(a.Map[last.username].Key, Bytes(last.password))

----------------------------------------------------------------------------
(* Properties of UpdateAccess, RemoveAccess and Login, seen through the     *)
(* commands that call them: Was is the store the command loaded, a the     *)
(* store in its memory when it ended.                                       *)

Updated == cli.verb = "update" /\ Was # Nil
Removed == cli.verb = "remove" /\ Was # Nil

\* C21: RemoveAccess(u) returns true exactly when u is a key of the map and
\* then deletes that entry and no other; when u is no key it returns false
\* and leaves the store as it was; after it u is no key, so a second
\* RemoveAccess(u) returns false.
C21_RemoveAccessExact ==
    Removed =>
        LET u == cli.args[1]
        IN  /\ (cli.err = NoError) = (u \in DOMAIN Was.Map)
            /\ a.Map = [v \in DOMAIN Was.Map \ {u} |-> Was.Map[v]]
            /\ [a EXCEPT !.Map = Was.Map] = Was
            /\ u \notin DOMAIN Was.Map => cli.err = "Failed to find"
            /\ u \notin DOMAIN a.Map

\* one of two users was removed
C21_Witness ==
    /\ Removed
    /\ cli.err = NoError
    /\ Cardinality(DOMAIN Was.Map) = 2
    /\ Cardinality(DOMAIN a.Map) = 1

\* C22: UpdateAccess on a store whose encryption tag is empty sets the tag
\* to argon2id and derives the key with argon2id; on a store whose tag is
\* not empty it leaves the tag as it is, so a key is derived with md5 or
\* sha512 only when the store already had that tag.
C22_DefaultsToArgon2id ==
    Updated =>
        LET u == cli.args[1]
            p == cli.args[2]
        IN  /\ a.Encryption = IF Was.Encryption = "" THEN "argon2id" ELSE Was.Encryption
            /\ (cli.err = NoError /\ Was.Encryption = "")
                   => a.Map[u].Key = Argon2IDKey(p, a.Map[u].Salt)
            /\ (cli.err = NoError /\ a.Map[u].Key \in {Md5Key(p), Sha512Key(p)})
                   => Was.Encryption \in {"md5", "sha512"}

\* a user was enrolled in a store whose tag was empty
C22_Witness ==
    /\ Updated
    /\ cli.err = NoError
    /\ Was.Encryption = ""
    /\ a.Encryption = "argon2id"

Framed ==
    /\ (Updated \/ Removed) =>
           /\ \A v \in (DOMAIN Was.Map) \ {cli.args[1]} :
                  v \in DOMAIN a.Map /\ a.Map[v] = Was.Map[v]
           /\ DOMAIN a.Map \subseteq DOMAIN Was.Map \cup {cli.args[1]}
           /\ a.Routes = Was.Routes
           /\ a.AuthType = Was.AuthType
           /\ a.AuthName = Was.AuthName
    /\ (cli.verb = "test" /\ Was # Nil) => a = Was

\* the Login results of the users other than u are as they were
OthersLoginAsBefore ==
    \A v \in UserArguments \ {cli.args[1]} : \A p \in Passwords :
        LoginOn(a, v, p) = LoginOn(Was, v, p)

----------------------------------------------------------------------------
(* Properties of the routes commands as transactions on the file *)

\* the i-th argument of the routes update that ran collides with a route of
\* the file or with an argument before it
CollidingArgument(i) ==
    LET arg == WithSlashes(cli.args[i])
    IN  \/ \E k \in 1..Len(Was.Routes) :
               HasPrefix(arg, Was.Routes[k]) \/ HasPrefix(Was.Routes[k], arg)
        \/ \E j \in 1..(i - 1) :
               \/ HasPrefix(arg, WithSlashes(cli.args[j]))
               \/ HasPrefix(WithSlashes(cli.args[j]), arg)

\* the i-th argument of the routes remove that ran names no route of the
\* file, or one an argument before it has taken out
MissingArgument(i) ==
    LET arg == WithLeadingSlash(cli.args[i])
    IN  \/ arg \notin Range(Was.Routes)
        \/ \E j \in 1..(i - 1) : WithLeadingSlash(cli.args[j]) = arg

\* C25: routes update FILE r1 ... rn writes the file only when every
\* argument was accepted: when an argument collides with a route of the file
\* or with an earlier argument the command ends with the collision error and
\* the file is as it was, the arguments accepted before it included; routes
\* remove likewise when an argument is not found.  A command that ends
\* without error has stored, or taken out, every argument.
C25_RoutesAllOrNothing ==
    /\ cli.verb = "update" =>
           /\ (\E i \in 1..Len(cli.args) : CollidingArgument(i))
                  => (cli.err = "collides with" /\ disk = cli.was)
           /\ cli.err # NoError => disk = cli.was
           /\ cli.err = NoError =>
                  Range(Stored.Routes) =
                      Range(Was.Routes) \cup {WithSlashes(cli.args[i]) : i \in 1..Len(cli.args)}
    /\ cli.verb = "remove" =>
           /\ (\E i \in 1..Len(cli.args) : MissingArgument(i))
                  => (cli.err = "Could not find route" /\ disk = cli.was)
           /\ cli.err # NoError => disk = cli.was
           /\ cli.err = NoError =>
                  Range(Stored.Routes) =
                      Range(Was.Routes) \ {WithLeadingSlash(cli.args[i]) : i \in 1..Len(cli.args)}

\* the second argument of an update collided after the first had been added
\* to the table in memory; the file is as it was
C25_Witness ==
    /\ cli.verb = "update"
    /\ cli.err = "collides with"
    /\ Len(cli.args) = 2
    /\ ~CollidingArgument(1)
    /\ a.Routes # Was.Routes
    /\ disk = cli.was

\* C26: a routes remove FILE x that follows a successful routes update
\* FILE x with the same x succeeds and leaves the route table the file had
\* before the update.
C26_RemoveUndoesUpdate ==
    [][(/\ cli.verb = "update"
        /\ cli.err = NoError
        /\ Len(cli.args) = 1
        /\ cli'.verb = "remove"
        /\ cli'.args = cli.args)
           => (cli'.err = NoError /\ Stored'.Routes = Was.Routes)]_vars

----------------------------------------------------------------------------
(* The two forms of the gate *)

\* C27: a.Handler(next) and AccessHandler(next, a) behave alike: for every
\* store, nil included, and every request, the response either form has
\* given (status, headers, body), its call or not of next and its calls of
\* Login are those the other form gives for the same store and request.
C27_HandlerFormsAgree ==
    Served =>
        /\ last.outcome = HandlerServeHTTP(a, last.req)
        /\ last.outcome = AccessHandlerServeHTTP(a, last.req)

\* AccessHandler has passed a request for a protected path on, with the
\* challenge header on the response
C27_Witness ==
    /\ last.op = "AccessHandler"
    /\ Protected
    /\ Accepted
    /\ last.outcome.nextCalls = <<last.req>>
    /\ last.outcome.res.WWWAuthenticate # <<>>

----------------------------------------------------------------------------
(* Properties of the webserver command *)

\* C28: the running server decides every request against the store in its
\* memory, the one it loaded when it started: a webaccess command that
\* writes the access file changes the decision of the server for no
\* request, and each response is the one the gate gives on the store in
\* memory.
C28_ServesStoreLoadedAtStartup ==
    /\ [][(Started /\ disk' # disk) =>
              \A req \in Requests :
                  AccessHandlerServeHTTP(a', req) = AccessHandlerServeHTTP(a, req)]_vars
    /\ [](Served => last.outcome = AccessHandlerServeHTTP(a, last.req))

\* a user whom webaccess remove has taken out of the file has authenticated
C28_Witness ==
    /\ Served
    /\ Protected
    /\ Accepted
    /\ last.outcome.nextCalls = <<last.req>>
    /\ cli.verb = "remove"
    /\ cli.err = NoError
    /\ Stored # Nil
    /\ last.req.Authorization.username \notin DOMAIN Stored.Map

\* C29: when the configuration names an access file that cannot be loaded
\* (missing, malformed, unsupported extension) LoadWebService returns an
\* error and webserver exits without serving; a server whose configuration
\* names an access file never serves with a nil Access.
C29_NoServingWithoutNamedStore ==
    /\ (last.op = "LoadWebService" /\ cli = NoCommand /\ fName # NoAccessFile) =>
           (last.result = FALSE) =
               (disk = Missing \/ Malformed(fName, disk) \/ ~Supported(fName))
    /\ (last.op = "LoadWebService" /\ ~last.result) = fault
    /\ (Started /\ ~fault /\ fName # NoAccessFile) => a # Nil
    /\ Served => ~fault

\* webserver has exited on an access file that is not an access file
C29_Witness ==
    /\ fault
    /\ last.op = "LoadWebService"
    /\ fName = AccessTOML
    /\ disk = Garbage
    /\ a = Nil

----------------------------------------------------------------------------
(* Properties of webaccess commands run at the same time *)

\* the file after the commands order[k], k = n..Len(order), one after the
\* other on a file that holds content
RECURSIVE OneByOne(_, _, _)
OneByOne(order, n, content) ==
    IF n > Len(order) THEN content
    ELSE OneByOne(order, n + 1, webaccess(procs[order[n]].c, fName, content).disk)

Orders == {o \in [1..NumCommands -> 1..NumCommands] : \A i, j \in 1..NumCommands : o[i] = o[j] => i = j}

\* C30: when the webaccess commands that ran at the same time on one access
\* file have all ended without error, the file holds the effect of every
\* one of them: it is the file the commands leave when they run one after
\* the other, in some order, on the file the first of them read.
C30_NoLostUpdate ==
    (\A i \in 1..NumCommands : procs[i].at = "done" /\ procs[i].err = NoError) =>
        \E o \in Orders : disk = OneByOne(o, 1, procs[o[1]].was)

====
